---- MODULE Spec2Model ----
(***************************************************************************)
(* Group chat server (src/group_chat): the thread-per-connection server,   *)
(* its session table, its per-socket write semaphores and the credential   *)
(* file, as a state machine.                                               *)
(*                                                                         *)
(* One worker thread runs Server.handle_client for each accepted           *)
(* connection; worker w serves the socket w.  A step of a worker is the    *)
(* code between two accesses of shared state (the session table, the lock  *)
(* dictionary, a semaphore, a socket, users.txt): at most one such access  *)
(* per step, so every interleaving of the threads is a behaviour.  The     *)
(* merges of two accesses into one step are named where they are made.     *)
(*                                                                         *)
(* A write to a socket fails (OSError) exactly when the server has closed  *)
(* that socket; a write to a peer that went away is taken by the kernel's  *)
(* buffer.                                                                 *)
(***************************************************************************)
EXTENDS Integers, Sequences, FiniteSets, TLC

\* ------------------------------------------------------------- bounds
NumConns == 3
MaxCmds == 3

\* ---------------------------------------------------------- constants
Conns == 1..NumConns
\* the (user_id, password) pairs a Login is sent with: the stored pairs and a
\* wrong password
LoginInputs == {<<"alice", "secret1">>, <<"bob", "secret1">>, <<"alice", "wrong">>}
\* the (user_id, password) pairs a NewUser is sent with: a stored user, a new one,
\* and a new one whose user_id is too short for NewUserCommand.validate
NewUserInputs == {<<"alice", "secret1">>, <<"carol", "secret1">>, <<"al", "secret1">>}
\* the user_id a SendDirect is sent with
DirectTargets == {"alice", "bob"}
Messages == {"hi"}
\* --version of the server the model runs (its default; version 1 has no
\* connection limit)
ServerVersion == 2
\* the choices of --version
Versions == {1, 2}
\* max_connections of a version 1 server: None
NoLimit == 0 - 1
\* Python's None; an f-string renders it as "None"
None == "None"
\* None where a socket is expected
NoSocket == 0 - 2
\* socket.fileno() of a closed socket
ClosedFd == 0 - 1
\* the accept thread (Server.accept_connections), as a creator of semaphores
Main == 0
Threads == Conns \cup {Main}
\* where a semaphore of a key is: the value of locks[key]
InDict == 0
NoSem == <<NoSocket, InDict>>
\* the --max-connections the version 2 server of the model runs with
MaxConnections == NumConns - 1
\* users.txt when the server starts
InitialUsersTxt ==
    << [user_id |-> "alice", password |-> "secret1"],
       [user_id |-> "bob", password |-> "secret1"] >>

VARIABLES
    version,          \* Server.version
    max_connections,  \* Server.max_connections
    connections,      \* Server.connections
    current_users,    \* Server.current_users: insertion-ordered dict, as a sequence of items
    closed,           \* closed[c]: the server closed socket c (fileno() < 0)
    users_txt,        \* the lines of users.txt
    locks,            \* Server.locks: locks[k] is TRUE when the key k is present
    held,             \* the semaphores whose counter is 0
    th,               \* th[w]: the locals of worker w (see InitThread)
    sent,             \* history: frames the thread's current command has written, in order
    snap,             \* history: the session table as the command first read it
    authed,           \* history: the user_id of the connection's last successful Login
    ncmds,            \* commands read so far, over all connections
    call,             \* a function of the program called on its own: its arguments and locals
    client            \* a Client with its two threads and the two directions of its socket

cfgv == <<version, max_connections, call, client>>
srv == <<connections, current_users, closed, users_txt, locks, held>>
hist == <<sent, snap, authed, ncmds>>
vars == <<cfgv, srv, th, hist>>

\* ------------------------------------------------------------ helpers
Range(s) == {s[i] : i \in 1..Len(s)}

SeqWithout(s, i) ==
    IF i < 1 \/ i > Len(s) THEN s
    ELSE SubSeq(s, 1, i - 1) \o SubSeq(s, i + 1, Len(s))

\* Position of key u in the dict, 0 when absent.
DictIndex(d, u) ==
    IF \E i \in 1..Len(d) : d[i].user_id = u
    THEN CHOOSE i \in 1..Len(d) : d[i].user_id = u
    ELSE 0

\* dict.get(u): the socket, or None.
DictGet(d, u) == IF DictIndex(d, u) = 0 THEN NoSocket ELSE d[DictIndex(d, u)].socket

\* d[u] = s: a present key keeps its place, a new key goes last.
DictSet(d, u, s) ==
    IF DictIndex(d, u) = 0
    THEN Append(d, [user_id |-> u, socket |-> s])
    ELSE [d EXCEPT ![DictIndex(d, u)].socket = s]

\* d.pop(u, None)
DictPop(d, u) == SeqWithout(d, DictIndex(d, u))

\* Server.get_user_by_socket: the first item, in dict order, whose socket is s.
get_user_by_socket(d, s) ==
    IF \E i \in 1..Len(d) : d[i].socket = s
    THEN d[CHOOSE i \in 1..Len(d) :
             d[i].socket = s /\ \A j \in 1..(i - 1) : d[j].socket # s].user_id
    ELSE None

\* Server.is_user_connected
is_user_connected(d, u) == DictIndex(d, u) # 0

\* str.lower order of the user identifiers the model uses.
UserRank(u) == CASE u = "alice" -> 1 [] u = "bob" -> 2 [] u = "carol" -> 3 [] OTHER -> 4

RECURSIVE SortedUsers(_)
SortedUsers(S) ==
    IF S = {} THEN <<>>
    ELSE LET m == CHOOSE u \in S : \A v \in S : UserRank(u) <= UserRank(v)
         IN <<m>> \o SortedUsers(S \ {m})

\* Server.get_all_connected_users
get_all_connected_users(d) == SortedUsers({d[i].user_id : i \in 1..Len(d)})

RECURSIVE JoinComma(_)
JoinComma(s) ==
    IF Len(s) = 0 THEN ""
    ELSE IF Len(s) = 1 THEN s[1]
    ELSE s[1] \o ", " \o JoinComma(Tail(s))

\* db.user_exists
user_exists(txt, u) == \E i \in 1..Len(txt) : txt[i].user_id = u

\* db.user_and_password_exists (Server.authenticate)
user_and_password_exists(txt, u, p) ==
    \E i \in 1..Len(txt) : txt[i].user_id = u /\ txt[i].password = p

\* ------------------------------------------------------------- frames
PrintCommand(text) == [id |-> "P", text |-> text, users |-> <<>>]
UserIdCommand(u) == [id |-> "U", text |-> u, users |-> <<>>]
DisconnectCommand(text) == [id |-> "X", text |-> text, users |-> <<>>]
NoFrame == [id |-> "_", text |-> "", users |-> <<>>]
NoCmd == [id |-> "_"]

VersionText(v) == IF v = 1 THEN "1" ELSE "2"
MsgVersion == "Server is running version " \o VersionText(version)
                 \o ". Update client to correct version."
MsgFull == "Server cannot accept new connections. Try later."
MsgDenied == "Denied. User name or password incorrect."
MsgCreated == "New user account created. Please login."
MsgExists == "Denied. User account already exists."
MsgNotLoggedIn == "That user is not logged in."
MsgJoins(u) == u \o " joins."
MsgLeft(u) == u \o " left"
MsgAll(from, m) == from \o ": " \o m
MsgDirect(from, m) == from \o "= " \o m

\* The locals of a worker.
\*   pc: idle (not accepted), recv (in recv(1)), iter (at a fan-out's next()),
\*       store / acquire / writing (in Command.request), login, nu_append,
\*       complete (the command returned or raised; its history is still held),
\*       done (handle_client returned),
\*       dead (an uncaught exception ended the thread), rejected (refused at accept)
\*   cmd: the command last read; phase: which send of it is in progress
\*   it, itUsed: the dict iterator of a fan-out (items passed, di_used)
\*   dest, frame: Command.socket and the command being sent; sem: what locks[...] returned
\*   from_user_id: the local of SendAll / SendDirect
\*   err: the exception the command raised ("": none)
\*   in_execute: Server.disconnect was called from ConnectCommand.execute, inside the try
InitThread(c) ==
    [pc |-> "idle", cmd |-> NoCmd, phase |-> "none", it |-> 0, itUsed |-> 0,
     dest |-> NoSocket, frame |-> NoFrame, sem |-> NoSem, from_user_id |-> None, err |-> "",
     in_execute |-> FALSE]

\* ---------------------------------------------------------------- Init
\* Server.__init__, and no worker started.
InitServer ==
    /\ connections = {}
    /\ current_users = <<>>
    /\ closed = [c \in Conns |-> FALSE]
    /\ users_txt = InitialUsersTxt
    /\ locks = [k \in Conns |-> FALSE]
    /\ held = {}
    /\ th = [c \in Conns |-> InitThread(c)]
    /\ sent = [c \in Threads |-> <<>>]
    /\ snap = [c \in Conns |-> <<>>]
    /\ authed = [c \in Conns |-> None]
    /\ ncmds = 0

\* No function is being called on its own.
NoCall == [f |-> "none"]

\* No client is being run.
NoClient == [input |-> "none"]

Init ==
    /\ version = ServerVersion
    /\ max_connections = MaxConnections
    /\ InitServer
    /\ client = NoClient
    /\ call = NoCall

\* The server started with either --version; main passes max_connections = None
\* for version 1 (no limit, never read).
InitAnyVersion ==
    /\ version \in Versions
    /\ max_connections = (IF version = 1 THEN NoLimit ELSE MaxConnections)
    /\ InitServer
    /\ client = NoClient
    /\ call = NoCall

\* ------------------------------------------------------------- actions
\* A worker's locals once its command returned (e = "") or raised e.
Complete(t, e) ==
    [t EXCEPT !.pc = "complete", !.err = e, !.phase = "none", !.it = 0, !.itUsed = 0,
              !.dest = NoSocket, !.frame = NoFrame, !.sem = NoSem]

\* The locals of a worker between commands.
Cleared(t, p) ==
    [t EXCEPT !.pc = p, !.cmd = NoCmd, !.from_user_id = None, !.in_execute = FALSE]

\* socket.fileno()
Fileno(c) == IF closed[c] THEN ClosedFd ELSE c

\* Semaphore objects.  Server.locks never loses a key, so the objects made for a
\* key k are told apart by where they are:
\*   <<k, InDict>>  the value of locks[k]
\*   <<k, w>>       made by worker w's lookup of the missing key k, not stored yet
\*   <<k, 0 - w>>   was the value of locks[k] until worker w's store replaced it
\* The semaphore of key ClosedFd is only ever held across a sendall on a closed
\* socket, which raises at once: it never makes a thread wait and is not kept.
SemAfterStore(x, k, w) ==
    IF x = <<k, InDict>> THEN <<k, 0 - w>> ELSE IF x = <<k, w>> THEN <<k, InDict>> ELSE x

\* Command.request, entered by worker w for frame f to socket d, up to
\* self.server.locks[self.socket.fileno()].  locks is a
\* defaultdict(threading.Semaphore): a missing key runs the factory (Python code,
\* during which the thread can be switched out) and stores its result afterwards.
\* The lookup is in one step with the read that chose d.
StartSend(t, w, d, f, ph) ==
    LET k == Fileno(d) IN
    IF k = ClosedFd \/ locks[k]
    THEN [t EXCEPT !.pc = "acquire", !.sem = <<k, InDict>>, !.dest = d, !.frame = f,
                   !.phase = ph]
    ELSE [t EXCEPT !.pc = "store", !.sem = <<k, w>>, !.dest = d, !.frame = f,
                   !.phase = ph]

\* A worker's locals entering a loop over the session table that sends f.
StartFanOut(t, d, f, ph) ==
    [t EXCEPT !.pc = "iter", !.it = 0, !.itUsed = Len(d), !.frame = f, !.phase = ph]

\* The commands read in a behaviour of the version 1 server, whose connections
\* are all admitted
CmdBudget == IF version = 1 THEN MaxCmds - 1 ELSE MaxCmds

\* The loop top of handle_client has read a command: client_socket.recv(1) and
\* Command.from_socket touch the worker's own socket only.
Begin(w, c) ==
    /\ th[w].pc = "recv"
    /\ ncmds < CmdBudget
    /\ ncmds' = ncmds + 1
    /\ sent' = [sent EXCEPT ![w] = <<>>]
    /\ snap' = [snap EXCEPT ![w] = current_users]
    /\ UNCHANGED authed

\* Server.accept_connections admitting while len(connections) <= max_connections.
AcceptOneTooMany(c) ==
    /\ th[c].pc = "idle"
    /\ \A b \in 1..(c - 1) : th[b].pc # "idle"
    /\ IF (version = 2 /\ Cardinality(connections) <= max_connections) \/ version = 1
       THEN /\ connections' = connections \cup {c}
            /\ th' = [th EXCEPT ![c].pc = "recv"]
            /\ UNCHANGED <<closed, locks, sent>>
       ELSE /\ locks' = [locks EXCEPT ![c] = TRUE]
            /\ sent' = [sent EXCEPT ![Main] = << <<c, DisconnectCommand(MsgFull)>> >>]
            /\ closed' = [closed EXCEPT ![c] = TRUE]
            /\ th' = [th EXCEPT ![c].pc = "rejected"]
            /\ UNCHANGED connections
    /\ UNCHANGED <<cfgv, current_users, users_txt, held, snap, authed, ncmds>>

\* Server.accept_connections, one turn of its loop: socket c is the c-th one
\* accepted.  A refusal is one step: no other thread knows the refused socket.
Accept(c) ==
    /\ th[c].pc = "idle"
    /\ \A b \in 1..(c - 1) : th[b].pc # "idle"
    /\ IF (version = 2 /\ Cardinality(connections) < max_connections) \/ version = 1
       THEN /\ connections' = connections \cup {c}
            /\ th' = [th EXCEPT ![c].pc = "recv"]
            /\ UNCHANGED <<closed, locks, sent>>
       ELSE /\ locks' = [locks EXCEPT ![c] = TRUE]
            /\ sent' = [sent EXCEPT ![Main] = << <<c, DisconnectCommand(MsgFull)>> >>]
            /\ closed' = [closed EXCEPT ![c] = TRUE]
            /\ th' = [th EXCEPT ![c].pc = "rejected"]
            /\ UNCHANGED connections
    /\ UNCHANGED <<cfgv, current_users, users_txt, held, snap, authed, ncmds>>

\* ConnectCommand.execute, up to its first send.
RecvConnect(w, v) ==
    /\ Begin(w, [id |-> "C", version |-> v])
    /\ LET t == [th[w] EXCEPT !.cmd = [id |-> "C", version |-> v]] IN
       IF v # VersionText(version)
       THEN th' = [th EXCEPT ![w] = StartSend(t, w, w, DisconnectCommand(MsgVersion), "version")]
       ELSE th' = [th EXCEPT ![w] = Complete(t, "")]
    /\ UNCHANGED <<cfgv, srv>>

\* LoginCommand.execute calling Server.login before Server.broadcast.
LoginBeforeBroadcast(w, u, p) ==
    /\ Begin(w, [id |-> "A", user_id |-> u, password |-> p])
    /\ LET t == [th[w] EXCEPT !.cmd = [id |-> "A", user_id |-> u, password |-> p]] IN
       IF user_and_password_exists(users_txt, u, p)
       THEN /\ current_users' = DictSet(current_users, u, w)
            /\ th' = [th EXCEPT ![w] =
                        StartFanOut(t, current_users', PrintCommand(MsgJoins(u)), "join")]
       ELSE /\ th' = [th EXCEPT ![w] = StartSend(t, w, w, PrintCommand(MsgDenied), "reply")]
            /\ UNCHANGED current_users
    /\ UNCHANGED <<cfgv, connections, closed, users_txt, locks, held>>

\* LoginCommand.execute taking the other branch: it broadcasts and registers the
\* user when Server.authenticate fails, and denies when it succeeds.
LoginWhenNotAuthenticated(w, u, p) ==
    /\ Begin(w, [id |-> "A", user_id |-> u, password |-> p])
    /\ LET t == [th[w] EXCEPT !.cmd = [id |-> "A", user_id |-> u, password |-> p]] IN
       IF ~user_and_password_exists(users_txt, u, p)
       THEN th' = [th EXCEPT ![w] =
                     StartFanOut(t, current_users, PrintCommand(MsgJoins(u)), "join")]
       ELSE th' = [th EXCEPT ![w] = StartSend(t, w, w, PrintCommand(MsgDenied), "reply")]
    /\ UNCHANGED <<cfgv, srv>>

\* LoginCommand.execute: Server.authenticate, then the iterator of Server.broadcast
\* (users.txt only grows, so a successful authenticate commutes with what other
\* threads do before the iterator is made).
RecvLogin(w, u, p) ==
    /\ Begin(w, [id |-> "A", user_id |-> u, password |-> p])
    /\ LET t == [th[w] EXCEPT !.cmd = [id |-> "A", user_id |-> u, password |-> p]] IN
       IF user_and_password_exists(users_txt, u, p)
       THEN th' = [th EXCEPT ![w] =
                     StartFanOut(t, current_users, PrintCommand(MsgJoins(u)), "join")]
       ELSE th' = [th EXCEPT ![w] = StartSend(t, w, w, PrintCommand(MsgDenied), "reply")]
    /\ UNCHANGED <<cfgv, srv>>

\* Server.login, after the join notice went out, then the UserId reply.
Login(w) ==
    /\ th[w].pc = "login"
    /\ current_users' = DictSet(current_users, th[w].cmd.user_id, w)
    /\ th' = [th EXCEPT ![w] =
                 StartSend(th[w], w, w, UserIdCommand(th[w].cmd.user_id), "reply")]
    /\ authed' = [authed EXCEPT ![w] = th[w].cmd.user_id]
    /\ UNCHANGED <<cfgv, connections, closed, users_txt, locks, held, sent, snap, ncmds>>

\* NewUserCommand.execute with insert_new_user_and_password not looking for the
\* user first.
NewUserWithoutLookup(w, u, p) ==
    /\ Begin(w, [id |-> "N", user_id |-> u, password |-> p])
    /\ LET t == [th[w] EXCEPT !.cmd = [id |-> "N", user_id |-> u, password |-> p]] IN
       th' = [th EXCEPT ![w] = [t EXCEPT !.pc = "nu_append"]]
    /\ UNCHANGED <<cfgv, srv>>

\* NewUserCommand.execute: db.insert_new_user_and_password up to user_exists.
RecvNewUser(w, u, p) ==
    /\ Begin(w, [id |-> "N", user_id |-> u, password |-> p])
    /\ LET t == [th[w] EXCEPT !.cmd = [id |-> "N", user_id |-> u, password |-> p]] IN
       IF user_exists(users_txt, u)
       THEN th' = [th EXCEPT ![w] = StartSend(t, w, w, PrintCommand(MsgExists), "reply")]
       ELSE th' = [th EXCEPT ![w] = [t EXCEPT !.pc = "nu_append"]]
    /\ UNCHANGED <<cfgv, srv>>

\* db.insert_new_user_and_password: the append, then the reply.
NewUserAppend(w) ==
    /\ th[w].pc = "nu_append"
    /\ users_txt' = Append(users_txt, [user_id |-> th[w].cmd.user_id,
                                       password |-> th[w].cmd.password])
    /\ th' = [th EXCEPT ![w] = StartSend(th[w], w, w, PrintCommand(MsgCreated), "reply")]
    /\ UNCHANGED <<cfgv, connections, current_users, closed, locks, held, hist>>

\* SendAllCommand.execute up to the loop: get_user_by_socket and the iterator of
\* current_users.items(), read in one step.
RecvSendAll(w, m) ==
    /\ Begin(w, [id |-> "S", message |-> m])
    /\ LET from == get_user_by_socket(current_users, w)
           t == [th[w] EXCEPT !.cmd = [id |-> "S", message |-> m], !.from_user_id = from]
       IN th' = [th EXCEPT ![w] =
                   StartFanOut(t, current_users, PrintCommand(MsgAll(from, m)), "sendall")]
    /\ UNCHANGED <<cfgv, srv>>

\* SendDirectCommand.execute with the failure notice addressed through the session
\* table (its first entry) instead of self.socket.
SendDirectNoticeToTable(w, u, m) ==
    /\ Begin(w, [id |-> "D", user_id |-> u, message |-> m])
    /\ LET from == get_user_by_socket(current_users, w)
           client_socket == DictGet(current_users, u)
           t == [th[w] EXCEPT !.cmd = [id |-> "D", user_id |-> u, message |-> m],
                              !.from_user_id = from]
       IN IF client_socket # NoSocket
          THEN th' = [th EXCEPT ![w] =
                        StartSend(t, w, client_socket, PrintCommand(MsgDirect(from, m)), "reply")]
          ELSE th' = [th EXCEPT ![w] =
                        StartSend(t, w,
                                  IF Len(current_users) > 0 THEN current_users[1].socket ELSE w,
                                  PrintCommand(MsgNotLoggedIn), "reply")]
    /\ UNCHANGED <<cfgv, srv>>

\* SendDirectCommand.execute up to its send: get_user_by_socket and
\* current_users.get, read in one step.
RecvSendDirect(w, u, m) ==
    /\ Begin(w, [id |-> "D", user_id |-> u, message |-> m])
    /\ LET from == get_user_by_socket(current_users, w)
           client_socket == DictGet(current_users, u)
           t == [th[w] EXCEPT !.cmd = [id |-> "D", user_id |-> u, message |-> m],
                              !.from_user_id = from]
       IN IF client_socket # NoSocket
          THEN th' = [th EXCEPT ![w] =
                        StartSend(t, w, client_socket, PrintCommand(MsgDirect(from, m)), "reply")]
          ELSE th' = [th EXCEPT ![w] =
                        StartSend(t, w, w, PrintCommand(MsgNotLoggedIn), "reply")]
    /\ UNCHANGED <<cfgv, srv>>

\* WhoCommand.execute up to its send.
RecvWho(w) ==
    /\ Begin(w, [id |-> "W"])
    /\ LET connected_users == get_all_connected_users(current_users)
           f == [id |-> "P", text |-> JoinComma(connected_users), users |-> connected_users]
       IN th' = [th EXCEPT ![w] = StartSend([th[w] EXCEPT !.cmd = [id |-> "W"]], w, w, f, "reply")]
    /\ UNCHANGED <<cfgv, srv>>

\* handle_client reads an identifier that is not in COMMAND_LOOKUP: ValueError.
RecvUnknown(w) ==
    /\ Begin(w, [id |-> "?"])
    /\ th' = [th EXCEPT ![w] = Complete([th[w] EXCEPT !.cmd = [id |-> "?"]], "ValueError")]
    /\ UNCHANGED <<cfgv, srv>>

\* Command.from_socket reads a length header that is not a number: int() raises
\* ValueError.
RecvMalformed(w) ==
    /\ Begin(w, [id |-> "badlen"])
    /\ th' = [th EXCEPT ![w] = Complete([th[w] EXCEPT !.cmd = [id |-> "badlen"]], "ValueError")]
    /\ UNCHANGED <<cfgv, srv>>

\* defaultdict.__missing__: self[key] = value, whatever the key holds by now.
LockStore(w) ==
    /\ th[w].pc = "store"
    /\ LET k == th[w].sem[1] IN
       /\ locks' = [locks EXCEPT ![k] = TRUE]
       /\ held' = {SemAfterStore(x, k, w) : x \in held}
       /\ th' = [x \in Conns |->
                   [th[x] EXCEPT !.sem = SemAfterStore(@, k, w),
                                 !.pc = IF x = w THEN "acquire" ELSE @]]
    /\ UNCHANGED <<cfgv, connections, current_users, closed, users_txt, hist>>

\* Command.request: the with statement acquires the semaphore and sendall starts;
\* on a closed socket sendall raises OSError and the with statement releases.
LockAcquire(w) ==
    /\ th[w].pc = "acquire"
    /\ th[w].sem \notin held
    /\ IF closed[th[w].dest]
       THEN /\ th' = [th EXCEPT ![w] = Complete(th[w], "OSError")]
            /\ UNCHANGED held
       ELSE /\ th' = [th EXCEPT ![w].pc = "writing"]
            /\ held' = held \cup {th[w].sem}
    /\ UNCHANGED <<cfgv, connections, current_users, closed, users_txt, locks, hist>>

\* What follows a send that returned.
AfterSend(t) ==
    IF t.phase \in {"join", "sendall", "leave"}
    THEN [t EXCEPT !.pc = "iter", !.dest = NoSocket, !.sem = NoSem]
    ELSE Complete(t, "")

\* Command.request: sendall returns, the frame is on the wire, the semaphore is
\* released.
WriteDone(w) ==
    /\ th[w].pc = "writing"
    /\ held' = held \ {th[w].sem}
    /\ sent' = [sent EXCEPT ![w] = Append(@, <<th[w].dest, th[w].frame>>)]
    /\ th' = [th EXCEPT ![w] = AfterSend(th[w])]
    /\ UNCHANGED <<cfgv, connections, current_users, closed, users_txt, locks, snap, authed, ncmds>>

\* Command.request without the with statement: an OSError from sendall leaves
\* the semaphore acquired.
WriteFailKeepsLock(w) ==
    /\ th[w].pc = "writing"
    /\ closed[th[w].dest]
    /\ th' = [th EXCEPT ![w] = Complete(th[w], "OSError")]
    /\ UNCHANGED <<cfgv, connections, current_users, closed, users_txt, locks, held, hist>>

\* Command.request: the socket was closed under sendall, which raises OSError; the
\* semaphore is released.
WriteFail(w) ==
    /\ th[w].pc = "writing"
    /\ closed[th[w].dest]
    /\ held' = held \ {th[w].sem}
    /\ th' = [th EXCEPT ![w] = Complete(th[w], "OSError")]
    /\ UNCHANGED <<cfgv, connections, current_users, closed, users_txt, locks, hist>>

\* next() on the dict iterator of Server.broadcast or of SendAllCommand.execute:
\* RuntimeError when the dict's size is not the one the iterator was made with,
\* else the next item, else the end of the loop.
IterNext(w) ==
    /\ th[w].pc = "iter"
    /\ LET t == th[w] IN
       IF Len(current_users) # t.itUsed
       THEN th' = [th EXCEPT ![w] = Complete(t, "RuntimeError")]
       ELSE IF t.it < Len(current_users)
       THEN LET item == current_users[t.it + 1] IN
            IF t.phase = "sendall" /\ version = 2 /\ t.from_user_id = item.user_id
            THEN th' = [th EXCEPT ![w].it = t.it + 1]
            ELSE th' = [th EXCEPT ![w] =
                          StartSend([t EXCEPT !.it = t.it + 1], w, item.socket, t.frame, t.phase)]
       ELSE IF t.phase = "join"
       THEN th' = [th EXCEPT ![w] = [t EXCEPT !.pc = "login", !.it = 0, !.itUsed = 0]]
       ELSE th' = [th EXCEPT ![w] = Complete(t, "")]
    /\ UNCHANGED <<cfgv, srv, hist>>

\* A live dict iterator after the item at position j was popped.
IterAfterPop(t, j) ==
    IF t.phase \in {"join", "sendall", "leave"} /\ j # 0 /\ t.it >= j
    THEN [t EXCEPT !.it = t.it - 1]
    ELSE t

\* Server.disconnect(w's socket) by worker w, up to its broadcast; inx: called from
\* ConnectCommand.execute.  Its accesses are one step: no other thread reads
\* connections together with the table, and a thread that writes to the socket
\* between the pop and the close looked it up before the pop.
disconnect(w, inx) ==
    /\ LET username_to_remove == get_user_by_socket(current_users, w)
           j == DictIndex(current_users, username_to_remove)
           users == DictPop(current_users, username_to_remove)
           t == [Cleared(th[w], "iter") EXCEPT
                    !.cmd = [id |-> "teardown", user_id |-> username_to_remove],
                    !.err = "", !.in_execute = inx]
       IN IF closed[w]
          THEN /\ th' = [th EXCEPT ![w] = [Cleared(th[w], "done") EXCEPT !.err = ""]]
               /\ UNCHANGED <<connections, current_users, closed>>
          ELSE /\ connections' = connections \ {w}
               /\ current_users' = users
               /\ closed' = [closed EXCEPT ![w] = TRUE]
               /\ th' = [x \in Conns |->
                           IF x # w THEN IterAfterPop(th[x], j)
                           ELSE IF username_to_remove # None
                           THEN StartFanOut(t, users,
                                            PrintCommand(MsgLeft(username_to_remove)), "leave")
                           ELSE [Cleared(th[w], "done") EXCEPT !.err = ""]]
    /\ sent' = [sent EXCEPT ![w] = <<>>]
    /\ snap' = [snap EXCEPT ![w] = current_users]
    /\ UNCHANGED <<cfgv, users_txt, locks, held, authed, ncmds>>

\* recv(1) returns nothing (the peer closed): break, and Server.disconnect.
RecvEOF(w) ==
    /\ th[w].pc = "recv"
    /\ disconnect(w, FALSE)

\* The command raised OSError: caught in handle_client, break, Server.disconnect.
BreakOnOSError(w) ==
    /\ th[w].pc = "complete"
    /\ th[w].cmd.id # "teardown"
    /\ th[w].err = "OSError"
    /\ disconnect(w, FALSE)

\* ConnectCommand.execute, after its Disconnect notice: Server.disconnect.
ConnectDisconnect(w) ==
    /\ th[w].pc = "complete"
    /\ th[w].cmd.id = "C"
    /\ th[w].cmd.version # VersionText(version)
    /\ th[w].err = ""
    /\ disconnect(w, TRUE)

\* The command returned: handle_client is back at recv(1).
Return(w) ==
    /\ th[w].pc = "complete"
    /\ th[w].cmd.id # "teardown"
    /\ th[w].err = ""
    /\ ~(th[w].cmd.id = "C" /\ th[w].cmd.version # VersionText(version))
    /\ th' = [th EXCEPT ![w] = Cleared(th[w], "recv")]
    /\ sent' = [sent EXCEPT ![w] = <<>>]
    /\ snap' = [snap EXCEPT ![w] = <<>>]
    /\ UNCHANGED <<cfgv, srv, authed, ncmds>>

\* The command raised something handle_client does not catch (it catches
\* KeyboardInterrupt and OSError): the thread ends, Server.disconnect is not called.
Uncaught(w) ==
    /\ th[w].pc = "complete"
    /\ th[w].cmd.id # "teardown"
    /\ th[w].err \notin {"", "OSError"}
    /\ th' = [th EXCEPT ![w] = [Cleared(th[w], "dead") EXCEPT !.err = ""]]
    /\ sent' = [sent EXCEPT ![w] = <<>>]
    /\ snap' = [snap EXCEPT ![w] = <<>>]
    /\ UNCHANGED <<cfgv, srv, authed, ncmds>>

\* The broadcast of Server.disconnect returned or raised.  Called after the loop it
\* is outside the try: any exception ends the thread.  Called from
\* ConnectCommand.execute, an OSError is caught, the loop breaks, and so it does
\* when the broadcast returned: recv on the closed socket raises OSError; then
\* Server.disconnect returns at once and handle_client returns.
EndDisconnect(w) ==
    /\ th[w].pc = "complete"
    /\ th[w].cmd.id = "teardown"
    /\ th' = [th EXCEPT ![w] =
                 [Cleared(th[w], IF th[w].err = "" \/ (th[w].err = "OSError" /\ th[w].in_execute)
                                 THEN "done" ELSE "dead")
                    EXCEPT !.err = ""]]
    /\ sent' = [sent EXCEPT ![w] = <<>>]
    /\ snap' = [snap EXCEPT ![w] = <<>>]
    /\ UNCHANGED <<cfgv, srv, authed, ncmds>>

VersionStrings == {"1", "2"}

Next ==
    \/ \E c \in Conns : Accept(c)
    \/ \E w \in Conns, v \in VersionStrings : RecvConnect(w, v)
    \/ \E w \in Conns, a \in LoginInputs : RecvLogin(w, a[1], a[2])
    \/ \E w \in Conns : Login(w)
    \/ \E w \in Conns, a \in NewUserInputs : RecvNewUser(w, a[1], a[2])
    \/ \E w \in Conns : NewUserAppend(w)
    \/ \E w \in Conns, m \in Messages : RecvSendAll(w, m)
    \/ \E w \in Conns, u \in DirectTargets, m \in Messages : RecvSendDirect(w, u, m)
    \/ \E w \in Conns : RecvWho(w)
    \/ \E w \in Conns : RecvUnknown(w)
    \/ \E w \in Conns : RecvMalformed(w)
    \/ \E w \in Conns : RecvEOF(w)
    \/ \E w \in Conns : LockStore(w)
    \/ \E w \in Conns : LockAcquire(w)
    \/ \E w \in Conns : WriteDone(w)
    \/ \E w \in Conns : WriteFail(w)
    \/ \E w \in Conns : IterNext(w)
    \/ \E w \in Conns : BreakOnOSError(w)
    \/ \E w \in Conns : ConnectDisconnect(w)
    \/ \E w \in Conns : Return(w)
    \/ \E w \in Conns : Uncaught(w)
    \/ \E w \in Conns : EndDisconnect(w)

Spec == Init /\ [][Next]_vars

SpecAnyVersion == InitAnyVersion /\ [][Next]_vars

\* ---------------------------------------------------------------------------
\* Properties of the server.

\* The workers inside socket.sendall on connection d.
Writers(d) == {w \in Conns : th[w].pc = "writing" /\ th[w].dest = d}

\* The number of frames in the sequence s that went to connection c.
FramesTo(s, c) == Cardinality({k \in 1..Len(s) : s[k][1] = c})

\* The connections a session table maps some user to.
SocketsOf(d) == {d[i].socket : i \in 1..Len(d)}

\* Worker w has run command id to its end (returned or raised) and has not yet
\* gone on.
Completed(w, id) == th[w].pc = "complete" /\ th[w].cmd.id = id

\* C1: the server never has two response frames being written to the same
\* connection at once, the first concurrent lock lookups for a connection
\* included: at most one worker is inside sendall on a connection.
C1_OneWriterPerConnection ==
    \A d \in Conns : Cardinality(Writers(d)) <= 1

\* C2: NewUser requests for one user_id, concurrent ones included, leave the
\* credential store with at most one record for it: only one of them succeeds.
C2_OneRecordPerUser ==
    \A i, j \in 1..Len(users_txt) :
        users_txt[i].user_id = users_txt[j].user_id => i = j

\* C3: the step that follows an unknown command identifier on connection w
\* closes w's socket and removes w from the open connections, and leaves every
\* other connection and its session-table entries as they were.
C3_UnknownIdentifierDisconnects ==
    [][\A w \in Conns :
          (Completed(w, "?") /\ th'[w] # th[w]) =>
              /\ closed'[w]
              /\ w \notin connections'
              /\ w \notin SocketsOf(current_users')
              /\ \A c \in Conns \ {w} :
                    /\ closed'[c] = closed[c]
                    /\ (c \in connections') = (c \in connections)
                    /\ \A i \in 1..Len(current_users) :
                          current_users[i].socket = c =>
                              DictGet(current_users', current_users[i].user_id) = c]_vars

\* C4: the session table is one-to-one: no user_id maps to two connections and
\* no connection is mapped by two user_ids.
C4_SessionTableOneToOne ==
    \A i, j \in 1..Len(current_users) :
        (\/ current_users[i].user_id = current_users[j].user_id
         \/ current_users[i].socket = current_users[j].socket) => i = j

\* C5: once a connection's worker has ended, for whatever reason, the connection
\* is closed, is not in the set of open connections and is not in the session
\* table.
C5_EndedWorkerIsTornDown ==
    \A w \in Conns :
        th[w].pc \in {"done", "dead"} =>
            /\ closed[w]
            /\ w \notin connections
            /\ w \notin SocketsOf(current_users)

\* C6: the list a Who from an authenticated connection gets contains the user of
\* every connection that logged in and is still open, and no user whose
\* connection was disconnected (a user who logged in again is mapped to the new
\* connection).
C6_WhoListsExactlyTheOpenSessions ==
    [][\A w \in Conns :
          (th[w].pc = "recv" /\ th'[w].cmd.id = "W" /\ authed[w] # None) =>
              LET listed == Range(th'[w].frame.users) IN
              /\ \A c \in Conns : (authed[c] # None /\ ~closed[c]) => authed[c] \in listed
              /\ \A u \in listed : ~closed[DictGet(current_users, u)]]_vars

\* C7: a SendAll from a logged-in connection has, when it ends, put exactly one
\* frame on every other connection that was logged in when it began (at most one
\* if that connection has been closed since), none on any other connection, and
\* none on the sender's in version 2 (one in version 1).
C7_SendAllExactlyOnce ==
    \A w \in Conns :
        (Completed(w, "S") /\ get_user_by_socket(snap[w], w) # None) =>
            \A c \in Conns :
                LET n == FramesTo(sent[w], c) IN
                IF c = w THEN n = (IF version = 2 THEN 0 ELSE 1)
                ELSE IF c \notin SocketsOf(snap[w]) THEN n = 0
                ELSE IF closed[c] THEN n <= 1
                ELSE n = 1

C9_SendDirectDelivered ==
    \A w \in Conns :
        (/\ Completed(w, "D")
         /\ get_user_by_socket(snap[w], w) # None
         /\ DictGet(snap[w], th[w].cmd.user_id) # NoSocket) =>
            sent[w] = << <<DictGet(snap[w], th[w].cmd.user_id),
                           PrintCommand(MsgDirect(get_user_by_socket(snap[w], w),
                                                  th[w].cmd.message))>> >>

\* C10: a SendAll, SendDirect or Who from a connection that no user_id of the
\* session table maps to sends no frame to any other connection and returns no
\* user list.
C10_UnauthenticatedIsRefused ==
    \A w \in Conns :
        (/\ th[w].pc = "complete"
         /\ th[w].cmd.id \in {"S", "D", "W"}
         /\ get_user_by_socket(snap[w], w) = None) =>
            \A k \in 1..Len(sent[w]) :
                /\ sent[w][k][1] = w
                /\ sent[w][k][2].users = <<>>

MaxShort == 4
USER_ID_MIN_LEN == 3
USER_ID_MAX_LEN == 32
PASSWORD_MIN_LEN == 4
PASSWORD_MAX_LEN == 8

\* the characters of the enumerated strings; str.split() splits at whitespace
Alphabet == {"a", " "}
Whitespace == {" "}

\* c * n
Rep(c, n) == [i \in 1..n |-> c]

\* The strings over Alphabet of length 0..n.
StringsUpTo(n) == UNION {[1..k -> Alphabet] : k \in 0..n}

\* user_id arguments: the short strings, and the long ones at the length limit
UserIdInputs ==
    StringsUpTo(MaxShort)
        \cup {Rep("a", USER_ID_MAX_LEN), Rep("a", USER_ID_MAX_LEN + 1),
              Rep("a", USER_ID_MAX_LEN - 1) \o <<" ">>}

\* password arguments: the short strings, and the long ones at the length limit
PasswordInputs ==
    StringsUpTo(MaxShort)
        \cup {Rep("a", PASSWORD_MAX_LEN), Rep("a", PASSWORD_MAX_LEN + 1),
              Rep("a", PASSWORD_MAX_LEN - 1) \o <<" ">>}

\* str.split(): the maximal runs of characters that are not whitespace.
RECURSIVE SplitAcc(_, _, _)
SplitAcc(s, cur, acc) ==
    IF s = <<>> THEN (IF cur = <<>> THEN acc ELSE Append(acc, cur))
    ELSE IF Head(s) \in Whitespace
    THEN SplitAcc(Tail(s), <<>>, IF cur = <<>> THEN acc ELSE Append(acc, cur))
    ELSE SplitAcc(Tail(s), Append(cur, Head(s)), acc)

str_split(s) == SplitAcc(s, <<>>, <<>>)

\* What a Python call gives: a bool, a list, or an exception; truth is bool(value).
PyBool(b) == [type |-> "bool", truth |-> b, items |-> <<>>]
PyList(l) == [type |-> "list", truth |-> Len(l) > 0, items |-> l]
PyRaise(e) == [type |-> e, truth |-> FALSE, items |-> <<>>]
NoResult == [type |-> "none", truth |-> FALSE, items |-> <<>>]

\* validate_user_and_password: item.split()[0] raises IndexError when the item
\* has no token; `a and b and c` is the first falsy operand, else c, the list.
validate_user_and_password(user_id, password) ==
    LET good_user_id_len == Len(user_id) \in USER_ID_MIN_LEN..USER_ID_MAX_LEN
        good_password_len == Len(password) \in PASSWORD_MIN_LEN..PASSWORD_MAX_LEN
        items == <<user_id, password>>
    IN IF \E i \in 1..2 : str_split(items[i]) = <<>>
       THEN PyRaise("IndexError")
       ELSE LET no_spaces == [i \in 1..2 |-> str_split(items[i])[1] = items[i]] IN
            IF ~good_user_id_len THEN PyBool(FALSE)
            ELSE IF ~good_password_len THEN PyBool(FALSE)
            ELSE PyList(no_spaces)

\* The arguments of a call of LoginCommand.validate or NewUserCommand.validate.
InitValidation ==
    /\ version = ServerVersion
    /\ max_connections = MaxConnections
    /\ InitServer
    /\ client = NoClient
    /\ call \in {[f |-> "validate", user_id |-> u, password |-> p, result |-> NoResult] :
                    u \in UserIdInputs, p \in PasswordInputs}

\* LoginCommand.validate, NewUserCommand.validate: the call returns or raises.
Validate ==
    /\ call.f = "validate"
    /\ call.result = NoResult
    /\ call' = [call EXCEPT !.result = validate_user_and_password(call.user_id, call.password)]
    /\ UNCHANGED <<version, max_connections, client, srv, th, hist>>

NextValidation == Validate

SpecValidation == InitValidation /\ [][NextValidation]_vars

\* C12: validation of (user_id, password) passes exactly when user_id has 3..32
\* characters, password has 4..8, and neither contains whitespace.
C12_ValidationPredicate ==
    (call.f = "validate" /\ call.result # NoResult) =>
        (call.result.truth <=>
            /\ Len(call.user_id) \in 3..32
            /\ Len(call.password) \in 4..8
            /\ \A i \in 1..Len(call.user_id) : call.user_id[i] \notin Whitespace
            /\ \A i \in 1..Len(call.password) : call.password[i] \notin Whitespace)

\* ---------------------------------------------------------------------------
\* Command.read and ServerMessage.socket_read_bytes, called on their own on a
\* socket whose peer sends the bytes of data and then closes.  A bytes object
\* is the sequence of its bytes.

\* the largest count asked for, and the most bytes the peer sends
MaxCount == 4
\* the zero-length chunks counted in the list chunks (more count as this many)
MaxEmptyReads == 2
MAX_MESSAGE_SIZE == 1024

ReadFunctions == {"Command.read", "socket_read_bytes"}

Min(a, b) == IF a < b THEN a ELSE b

\* socket.recv(bufsize) with `rest` still to arrive before the peer's close: the
\* lengths it can return.  Nothing left: the zero-length read.
RecvSizes(bufsize, rest) ==
    IF rest = <<>> THEN {0} ELSE 1..Min(bufsize, Len(rest))

\* The arguments of a call, and the locals before the loop.
InitRead ==
    /\ version = ServerVersion
    /\ max_connections = MaxConnections
    /\ InitServer
    /\ client = NoClient
    /\ call \in {[f |-> g, count |-> n, data |-> [i \in 1..m |-> i], pos |-> 0,
                  chunks |-> <<>>, total_received |-> 0, empty_reads |-> 0,
                  pc |-> "loop", ret |-> "pending"] :
                    g \in ReadFunctions, n \in 0..MaxCount, m \in 0..MaxCount}

\* One turn of `while total_received < count`: the recv, and what follows it.
\* chunks is the join of the list; socket_read_bytes returns None at a
\* zero-length chunk, Command.read appends it and goes on.
ReadRecv ==
    /\ call.f \in ReadFunctions
    /\ call.pc = "loop"
    /\ call.total_received < call.count
    /\ LET rest == SubSeq(call.data, call.pos + 1, Len(call.data))
           bufsize == Min(call.count - call.total_received, MAX_MESSAGE_SIZE)
       IN \E k \in RecvSizes(bufsize, rest) :
            LET chunk == SubSeq(rest, 1, k) IN
            IF k = 0 /\ call.f = "socket_read_bytes"
            THEN call' = [call EXCEPT !.pc = "returned", !.ret = "None",
                                      !.empty_reads = Min(@ + 1, MaxEmptyReads)]
            ELSE call' = [call EXCEPT !.chunks = @ \o chunk,
                                      !.pos = @ + k,
                                      !.total_received = @ + k,
                                      !.empty_reads = IF k = 0 THEN Min(@ + 1, MaxEmptyReads)
                                                      ELSE @]
    /\ UNCHANGED <<version, max_connections, client, srv, th, hist>>

\* The loop ends: return b''.join(chunks).
ReadReturn ==
    /\ call.f \in ReadFunctions
    /\ call.pc = "loop"
    /\ call.total_received >= call.count
    /\ call' = [call EXCEPT !.pc = "returned", !.ret = "bytes"]
    /\ UNCHANGED <<version, max_connections, client, srv, th, hist>>

NextRead ==
    \/ ReadRecv
    \/ ReadReturn

SpecRead == InitRead /\ [][NextRead]_vars

\* C13: a read of count bytes that has returned bytes returned the first count
\* bytes sent, and after a zero-length read (the peer closed before the count
\* was satisfied) the read has stopped with the connection-closed signal: it is
\* not in its loop about to read again.
C13_ReadStopsAtPeerClose ==
    call.f \in ReadFunctions =>
        /\ (call.pc = "returned" /\ call.ret = "bytes") =>
              call.chunks = SubSeq(call.data, 1, call.count)
        /\ call.empty_reads > 0 => (call.pc = "returned" /\ call.ret = "None")

\* ---------------------------------------------------------------------------
\* The wire format: Command.get_request_payload, and Command.from_socket on a
\* socket that delivers the payload in chunks.  A character is a one-character
\* string, a byte its integer value.

HEADER_WIDTH == 4

\* Command.keys of the class with the given identifier (the key order).
Keys(id) ==
    CASE id = "C" -> <<"version">>
      [] id = "X" -> <<"message">>
      [] id = "A" -> <<"user_id", "password">>
      [] id = "N" -> <<"user_id", "password">>
      [] id = "P" -> <<"message">>
      [] id = "S" -> <<"message">>
      [] id = "D" -> <<"user_id", "message">>
      [] id = "U" -> <<"user_id">>
      [] id = "W" -> <<>>

Identifiers == {"C", "X", "A", "N", "P", "S", "D", "U", "W"}

\* str.encode("utf-8") of one character: one byte for ASCII, two for U+00E9.
CharBytes(ch) ==
    CASE ch = " " -> <<32>>
      [] ch = "0" -> <<48>>
      [] ch = "1" -> <<49>>
      [] ch = "2" -> <<50>>
      [] ch = "a" -> <<97>>
      [] ch = "é" -> <<195, 169>>
      [] ch = "A" -> <<65>>
      [] ch = "C" -> <<67>>
      [] ch = "D" -> <<68>>
      [] ch = "N" -> <<78>>
      [] ch = "P" -> <<80>>
      [] ch = "S" -> <<83>>
      [] ch = "U" -> <<85>>
      [] ch = "W" -> <<87>>
      [] ch = "X" -> <<88>>

Chars == {" ", "0", "1", "2", "a", "é", "A", "C", "D", "N", "P", "S", "U", "W", "X"}

\* str.encode("utf-8"): the encodings of the characters, in order (computed by
\* halves).
RECURSIVE utf8_encode(_)
utf8_encode(str) ==
    IF str = <<>> THEN <<>>
    ELSE IF Len(str) = 1 THEN CharBytes(str[1])
    ELSE LET m == Len(str) \div 2 IN
         utf8_encode(SubSeq(str, 1, m)) \o utf8_encode(SubSeq(str, m + 1, Len(str)))

\* bytes.decode("utf-8"); bytes that are no encoding raise UnicodeDecodeError.
DecodeError == <<"UnicodeDecodeError">>

\* The character a one- or two-byte sequence encodes.
DecodeChar(b) ==
    LET chs == {ch \in Chars : CharBytes(ch) = b} IN
    IF chs = {} THEN DecodeError ELSE <<CHOOSE ch \in chs : TRUE>>

\* The decoding of a sequence from the decodings of two parts of it.
DecodeJoin(x, y) == IF x = DecodeError \/ y = DecodeError THEN DecodeError ELSE x \o y

\* Computed by halves, cut where a character starts (not at a continuation
\* byte, 0x80..0xBF).
RECURSIVE utf8_decode(_)
utf8_decode(b) ==
    IF b = <<>> THEN <<>>
    ELSE IF Len(b) = 1 THEN DecodeChar(b)
    ELSE IF Len(b) = 2
    THEN (IF b[1] < 128 THEN DecodeJoin(DecodeChar(<<b[1]>>), DecodeChar(<<b[2]>>))
          ELSE DecodeChar(b))
    ELSE LET m0 == Len(b) \div 2
             m1 == IF b[m0 + 1] \in 128..191 THEN m0 - 1 ELSE m0
             m == IF m1 = 0 THEN 2 ELSE m1
         IN DecodeJoin(utf8_decode(SubSeq(b, 1, m)), utf8_decode(SubSeq(b, m + 1, Len(b))))

\* str(n).encode(): the decimal digits of n >= 0.
RECURSIVE DecimalDigits(_)
DecimalDigits(n) ==
    IF n < 10 THEN <<48 + n>> ELSE DecimalDigits(n \div 10) \o <<48 + (n % 10)>>

\* f"{n:>{HEADER_WIDTH}}".encode(): right-justified with spaces to the width at
\* least; a longer number is not cut.
Header(n) ==
    LET d == DecimalDigits(n) IN
    IF Len(d) >= HEADER_WIDTH THEN d ELSE Rep(32, HEADER_WIDTH - Len(d)) \o d

\* The value of a string of digits.
RECURSIVE DigitsValue(_)
DigitsValue(d) ==
    IF d = <<>> THEN 0 ELSE 10 * DigitsValue(SubSeq(d, 1, Len(d) - 1)) + (d[Len(d)] - 48)

\* int(header.decode()): whitespace around the digits is stripped; anything
\* else raises ValueError (here a negative number).
ParseInt(b) ==
    LET idx == {i \in 1..Len(b) : b[i] # 32} IN
    IF idx = {} THEN 0 - 1
    ELSE LET lo == CHOOSE i \in idx : \A j \in idx : i <= j
             hi == CHOOSE i \in idx : \A j \in idx : i >= j
             d == SubSeq(b, lo, hi)
         IN IF \A i \in 1..Len(d) : d[i] \in 48..57 THEN DigitsValue(d) ELSE 0 - 1

\* b''.join of a list of bytes objects.
RECURSIVE Join(_)
Join(l) == IF l = <<>> THEN <<>> ELSE Head(l) \o Join(Tail(l))

\* get_request_payload with the headers counting characters (len of the str)
\* instead of bytes.
PayloadWithCharCounts(cmd) ==
    LET values == [i \in 1..Len(cmd.fields) |-> utf8_encode(cmd.fields[i])]
        headers == [i \in 1..Len(values) |-> Header(Len(cmd.fields[i]))]
    IN CharBytes(cmd.id) \o Join(headers) \o Join(values)

\* Command.get_request_payload of a command [id, fields]: the fields in key order.
get_request_payload(cmd) ==
    LET values == [i \in 1..Len(cmd.fields) |-> utf8_encode(cmd.fields[i])]
        headers == [i \in 1..Len(values) |-> Header(Len(values[i]))]
    IN CharBytes(cmd.id) \o Join(headers) \o Join(values)

\* Field values within the declared bounds: user_id 3..32 characters, password
\* 4..8, message 1..256, version "1" or "2".
UserIdFields == {<<"a", "a", "a">>, <<"a", "é", " ">>, Rep("a", 32)}
PasswordFields == {<<"a", "a", "a", "a">>, <<"é", " ", "a", "é">>, Rep("é", 8)}
MessageFields == {<<"a">>, <<"é">>, <<"a", " ", "é">>, Rep("a", 10), Rep("é", 64), Rep("a", 256)}
VersionFields == {<<"1">>, <<"2">>}

FieldValues(key) ==
    CASE key = "user_id" -> UserIdFields
      [] key = "password" -> PasswordFields
      [] key = "message" -> MessageFields
      [] key = "version" -> VersionFields

\* The commands of every class with fields from these sets.
CodecInputs ==
    UNION {{[id |-> id, fields |-> fs] :
               fs \in {x \in [1..Len(Keys(id)) ->
                               UNION {FieldValues(Keys(id)[i]) : i \in 1..Len(Keys(id))}] :
                          \A i \in 1..Len(Keys(id)) : x[i] \in FieldValues(Keys(id)[i])}} :
           id \in Identifiers}

\* The call record of a round trip of cmd: the sender's payload, then the
\* receiver's locals in handle_client / receive_messages and Command.from_socket.
CodecCall(cmd) ==
    [f |-> "codec", cmd |-> cmd, pc |-> "encode", wire |-> <<>>, pos |-> 0,
     cls |-> "_", header_bytes |-> <<>>, i |-> 0, count |-> 0, chunks |-> <<>>,
     kwargs |-> <<>>, split |-> FALSE, err |-> ""]

InitCodec ==
    /\ version = ServerVersion
    /\ max_connections = MaxConnections
    /\ InitServer
    /\ client = NoClient
    /\ call \in {CodecCall(cmd) : cmd \in CodecInputs}

\* The sender: socket.sendall(self.get_request_payload()).
CodecEncode ==
    /\ call.f = "codec"
    /\ call.pc = "encode"
    /\ call' = [call EXCEPT !.wire = get_request_payload(call.cmd), !.pc = "id"]
    /\ UNCHANGED <<version, max_connections, client, srv, th, hist>>

\* The receiver: recv(1), the lookup of the class, and from_socket up to its
\* first read (of header_size bytes).
CodecRecvId ==
    /\ call.f = "codec"
    /\ call.pc = "id"
    /\ LET command_type == utf8_decode(SubSeq(call.wire, 1, 1)) IN
       IF command_type = DecodeError \/ command_type[1] \notin Identifiers
       THEN call' = [call EXCEPT !.pc = "done", !.err = "ValueError", !.pos = 1]
       ELSE call' = [call EXCEPT !.pc = "read_header", !.pos = 1, !.cls = command_type[1],
                                 !.count = Len(Keys(command_type[1])) * HEADER_WIDTH,
                                 !.chunks = <<>>]
    /\ UNCHANGED <<version, max_connections, client, srv, th, hist>>

\* Command.read: one recv of the loop.
CodecRecv ==
    /\ call.f = "codec"
    /\ call.pc \in {"read_header", "read_value"}
    /\ Len(call.chunks) < call.count
    /\ LET rest == SubSeq(call.wire, call.pos + 1, Len(call.wire))
           bufsize == Min(call.count - Len(call.chunks), MAX_MESSAGE_SIZE)
       IN /\ rest # <<>>
          /\ \E k \in RecvSizes(bufsize, rest) :
                call' = [call EXCEPT !.chunks = @ \o SubSeq(rest, 1, k),
                                     !.pos = @ + k,
                                     !.split = @ \/ (Len(call.chunks) + k < call.count)]
    /\ UNCHANGED <<version, max_connections, client, srv, th, hist>>

\* from_socket once the field i has its header: count = int(header), and the
\* read of the value is next; past the last key the command is built.
NextField(c, i) ==
    IF i > Len(Keys(c.cls))
    THEN [c EXCEPT !.pc = "done", !.i = i, !.chunks = <<>>, !.count = 0]
    ELSE LET header == SubSeq(c.header_bytes, (i - 1) * HEADER_WIDTH + 1,
                              (i - 1) * HEADER_WIDTH + HEADER_WIDTH)
             n == ParseInt(header)
         IN IF n < 0
            THEN [c EXCEPT !.pc = "done", !.err = "ValueError", !.chunks = <<>>]
            ELSE [c EXCEPT !.pc = "read_value", !.i = i, !.count = n, !.chunks = <<>>]

\* Command.read returns: the header bytes, or the value of field i, decoded
\* into kwargs.
CodecReadDone ==
    /\ call.f = "codec"
    /\ call.pc \in {"read_header", "read_value"}
    /\ Len(call.chunks) >= call.count
    /\ IF call.pc = "read_header"
       THEN call' = NextField([call EXCEPT !.header_bytes = call.chunks], 1)
       ELSE LET value == utf8_decode(call.chunks) IN
            IF value = DecodeError
            THEN call' = [call EXCEPT !.pc = "done", !.err = "UnicodeDecodeError"]
            ELSE call' = NextField([call EXCEPT !.kwargs = Append(@, value)], call.i + 1)
    /\ UNCHANGED <<version, max_connections, client, srv, th, hist>>

NextCodec ==
    \/ CodecEncode
    \/ CodecRecvId
    \/ CodecRecv
    \/ CodecReadDone

SpecCodec == InitCodec /\ [][NextCodec]_vars

\* C14: decoding the payload of a command, delivered in any chunks, gives a
\* command of the same class with the same field values in the same key order,
\* and consumes exactly the payload.
C14_CodecRoundTrip ==
    (call.f = "codec" /\ call.pc = "done") =>
        /\ call.err = ""
        /\ call.cls = call.cmd.id
        /\ call.kwargs = call.cmd.fields
        /\ call.pos = Len(call.wire)

\* C14's case: a two-field command with a two-byte character has been decoded
\* from a payload of which some read got only a part.
C14_Witness ==
    /\ call.f = "codec"
    /\ call.pc = "done"
    /\ call.split
    /\ call.cmd.id = "D"
    /\ \E i \in 1..Len(call.cmd.fields[2]) : call.cmd.fields[2][i] = "é"
    /\ call.kwargs = call.cmd.fields

\* Commands with a field of more than 9999 bytes: 10000 one-byte characters,
\* 5000 two-byte characters.
OversizeInputs ==
    {[id |-> "P", fields |-> <<Rep("a", 10000)>>],
     [id |-> "P", fields |-> <<Rep("é", 5000)>>],
     [id |-> "S", fields |-> <<Rep("a", 10000)>>],
     [id |-> "D", fields |-> <<Rep("a", 3), Rep("a", 10000)>>]}

\* A command about to be sent: Command.request.
InitEncode ==
    /\ version = ServerVersion
    /\ max_connections = MaxConnections
    /\ InitServer
    /\ client = NoClient
    /\ call \in {CodecCall(cmd) : cmd \in CodecInputs \cup OversizeInputs}

NextEncode == CodecEncode

SpecEncode == InitEncode /\ [][NextEncode]_vars

\* C15: encoding a command with a field of more than 9999 bytes fails with an
\* error and emits no frame.
C15_OversizeFieldIsRefused ==
    (/\ call.f = "codec"
     /\ call.pc # "encode"
     /\ \E i \in 1..Len(call.cmd.fields) : Len(utf8_encode(call.cmd.fields[i])) > 9999) =>
        (call.err # "" /\ call.wire = <<>>)

\* ---------------------------------------------------------------------------
\* Command.validate of the class of a command the server has read, on the
\* strings of the server model (none of them has whitespace).
validate(cmd) ==
    CASE cmd.id \in {"A", "N"} ->
             /\ Len(cmd.user_id) \in USER_ID_MIN_LEN..USER_ID_MAX_LEN
             /\ Len(cmd.password) \in PASSWORD_MIN_LEN..PASSWORD_MAX_LEN
      [] cmd.id = "S" -> Len(cmd.message) \in 1..256
      [] cmd.id = "D" -> Len(cmd.message) \in 1..256 /\ Len(cmd.user_id) \in 3..32
      [] cmd.id = "C" -> cmd.version \in {"1", "2"}
      [] OTHER -> TRUE

\* C16: a command whose fields fail its validate rule changes nothing: the
\* credential store never gets a record that fails validation, and when such a
\* command has ended it raised nothing, its connection is open, and all it sent
\* is one frame, the rejection, to its own connection.
C16_InvalidCommandHasNoEffect ==
    /\ \A i \in 1..Len(users_txt) :
          validate([id |-> "N", user_id |-> users_txt[i].user_id,
                    password |-> users_txt[i].password])
    /\ \A w \in Conns :
          (/\ th[w].pc = "complete"
           /\ th[w].cmd.id \in {"A", "N", "S", "D", "C"}
           /\ ~validate(th[w].cmd)) =>
              /\ th[w].err = ""
              /\ ~closed[w]
              /\ Len(sent[w]) = 1
              /\ sent[w][1][1] = w
              /\ sent[w][1][2] \notin {PrintCommand(MsgCreated), UserIdCommand(th[w].cmd.user_id)}

\* The replies to a Login that does not authenticate and to a NewUser for a user
\* that exists.
FailureNotices == {PrintCommand(MsgDenied), PrintCommand(MsgExists)}

\* Worker w is between the decision to send a failure notice and the end of its
\* command.
SendingFailure(w) ==
    /\ th[w].cmd.id \in {"A", "N"}
    /\ th[w].phase = "reply"
    /\ th[w].frame \in FailureNotices

\* C17: a Login whose pair is not in the credential store and a NewUser whose
\* user_id exists go straight to the one failure notice for the requester,
\* without a join notice; from there to the end of the command the session
\* table and the credential store stay as they are and nothing is sent; the
\* command ends without an exception having sent exactly that notice to the
\* requester, which is open, and the worker goes back to reading commands.
C17_BusinessFailure ==
    [][\A w \in Conns :
          /\ (/\ th[w].pc = "recv"
              /\ th'[w].cmd.id = "A"
              /\ ~user_and_password_exists(users_txt, th'[w].cmd.user_id, th'[w].cmd.password)) =>
                 /\ th'[w].frame = PrintCommand(MsgDenied)
                 /\ th'[w].phase = "reply"
                 /\ th'[w].dest = w
                 /\ current_users' = current_users
                 /\ users_txt' = users_txt
          /\ (/\ th[w].pc = "recv"
              /\ th'[w].cmd.id = "N"
              /\ user_exists(users_txt, th'[w].cmd.user_id)) =>
                 /\ th'[w].frame = PrintCommand(MsgExists)
                 /\ th'[w].phase = "reply"
                 /\ th'[w].dest = w
                 /\ current_users' = current_users
                 /\ users_txt' = users_txt
          /\ (SendingFailure(w) /\ th'[w] # th[w]) =>
                 /\ current_users' = current_users
                 /\ users_txt' = users_txt
                 /\ ~closed'[w]
                 /\ w \in connections'
                 /\ IF th'[w].pc = "complete"
                    THEN /\ th'[w].err = ""
                         /\ sent'[w] = << <<w, th[w].frame>> >>
                    ELSE /\ th'[w].frame = th[w].frame
                         /\ th'[w].dest = w
                         /\ th'[w].phase = "reply"
                         /\ sent'[w] = <<>>
          /\ (/\ th[w].pc = "complete"
              /\ th[w].cmd.id \in {"A", "N"}
              /\ Len(sent[w]) = 1
              /\ sent[w][1][2] \in FailureNotices
              /\ th'[w] # th[w]) =>
                 /\ th'[w].pc = "recv"
                 /\ ~closed'[w]
                 /\ w \in connections']_vars

\* C17's case: with another connection logged in, a Login with a wrong password
\* has ended.
C17_Witness ==
    \E w \in Conns :
        /\ Completed(w, "A")
        /\ ~user_and_password_exists(users_txt, th[w].cmd.user_id, th[w].cmd.password)
        /\ sent[w] = << <<w, PrintCommand(MsgDenied)>> >>
        /\ SocketsOf(current_users) \ {w} # {}

\* Worker w holds a Connect whose version is not the server's.
VersionMismatch(t) ==
    t.cmd.id = "C" /\ t.cmd.version # VersionText(version)

\* C18: a Connect whose version differs from the server's goes straight to one
\* Disconnect frame for its sender and ends, without an exception, having sent
\* exactly that frame; the next step of its worker closes the connection and
\* leaves it neither in the connection list nor in the session table; a closed
\* connection stays closed, gets no entry in the session table, is not marked
\* authenticated, and its worker only finishes the teardown: it reads no other
\* command.
C18_VersionMismatchDrops ==
    [][\A w \in Conns :
          /\ (th[w].pc = "recv" /\ th'[w].pc # "recv" /\ VersionMismatch(th'[w])) =>
                 /\ th'[w].frame = DisconnectCommand(MsgVersion)
                 /\ th'[w].dest = w
          /\ (th'[w].pc = "complete" /\ VersionMismatch(th'[w])) =>
                 /\ th'[w].err = ""
                 /\ sent'[w] = << <<w, DisconnectCommand(MsgVersion)>> >>
          /\ (th[w].pc = "complete" /\ VersionMismatch(th[w]) /\ th'[w] # th[w]) =>
                 /\ closed'[w]
                 /\ w \notin connections'
                 /\ w \notin SocketsOf(current_users')
          /\ closed[w] =>
                 /\ closed'[w]
                 /\ authed'[w] = authed[w]
                 /\ w \in SocketsOf(current_users') => w \in SocketsOf(current_users)
          /\ closed'[w] =>
                 \/ th'[w].pc \in {"done", "dead", "rejected"}
                 \/ th'[w].cmd.id = "teardown"]_vars

\* ------------------------------------------------------------- the client
\* One Client (client.py) on the connection ClientSocket of the server: its input
\* thread, its receive thread, and the two directions of its socket.  The server
\* serves this one connection, a command at a step: with one worker no other
\* thread can come between the steps of a command.
MaxLines == 3

\* The server's socket of the client's connection.
ClientSocket == 1

ClientLogins == LoginInputs \cup {<<"al", "secret1">>}

MsgAlready(u) == "Already logged in as '" \o u \o "'. Logout first"
MsgMustLogin == "You must be logged in first to do that."
MsgGoodBye == "Server has disconnected. Good-bye!"
MsgUsage == "Usage:"
MsgConfirmed == "login confirmed"

\* Client.__init__ and Client.main up to the start of the two threads: the socket
\* is connected and ConnectCommand was written to it.
InitialClient(v) ==
    [version |-> v, current_user |-> None, closed |-> FALSE,
     input |-> "top", receive |-> "recv", printed |-> "", lines |-> 0,
     to_server |-> <<[id |-> "C", version |-> VersionText(v)]>>, to_client |-> <<>>]

InitClient ==
    /\ version = ServerVersion
    /\ max_connections = MaxConnections
    /\ InitServer
    /\ call = NoCall
    /\ client \in {InitialClient(v) : v \in Versions}

\* input_loop leaves its loop on OSError: the message, break, Client.disconnect.
Broken(cl) ==
    [cl EXCEPT !.printed = MsgGoodBye, !.input = "done", !.closed = TRUE]

\* Command.request in input_loop, the outcomes of socket.sendall: OSError on a
\* socket the client closed; on a connection the server closed the bytes are
\* taken and lost, or OSError; otherwise the command is on its way.
Request(cl, cmd) ==
    IF cl.closed THEN {Broken(cl)}
    ELSE IF closed[ClientSocket] THEN {[cl EXCEPT !.input = "top"], Broken(cl)}
    ELSE {[cl EXCEPT !.to_server = Append(@, cmd), !.input = "top"]}

\* input_loop, the top of the loop: the socket is closed, break and
\* Client.disconnect; or input() is called.
InputTop ==
    /\ client.input = "top"
    /\ client' = [client EXCEPT !.input = IF client.closed THEN "done" ELSE "input"]
    /\ UNCHANGED <<version, max_connections, call, srv, th, hist>>

\* input_loop, case ["login", user_id, password].
TypeLogin(u, p) ==
    /\ client.input = "input"
    /\ client.lines < MaxLines
    /\ LET cl == [client EXCEPT !.lines = @ + 1]
           command == [id |-> "A", user_id |-> u, password |-> p]
       IN IF validate(command) /\ cl.current_user = None
          THEN client' \in Request(cl, command)
          ELSE IF cl.current_user # None
          THEN client' = [cl EXCEPT !.printed = MsgAlready(cl.current_user), !.input = "top"]
          ELSE client' = [cl EXCEPT !.printed = MsgUsage, !.input = "top"]
    /\ UNCHANGED <<version, max_connections, call, srv, th, hist>>

\* input_loop, case ["who"].
TypeWho ==
    /\ client.input = "input"
    /\ client.lines < MaxLines
    /\ LET cl == [client EXCEPT !.lines = @ + 1] IN
       IF cl.current_user # None
       THEN client' \in Request(cl, [id |-> "W"])
       ELSE client' = [cl EXCEPT !.printed = MsgMustLogin, !.input = "top"]
    /\ UNCHANGED <<version, max_connections, call, srv, th, hist>>

\* input_loop, case ["logout"]: break, and Client.disconnect closes the socket.
TypeLogout ==
    /\ client.input = "input"
    /\ client.lines < MaxLines
    /\ client' = [client EXCEPT
                     !.lines = @ + 1,
                     !.printed = IF client.version = 1 /\ client.current_user # None
                                 THEN MsgLeft(client.current_user) ELSE @,
                     !.closed = TRUE,
                     !.input = "done"]
    /\ UNCHANGED <<version, max_connections, call, srv, th, hist>>

\* receive_messages reads one command and executes it: UserIdCommand.execute
\* (Client.set_current_user), PrintCommand.execute, DisconnectCommand.execute
\* (Client.disconnect).
ReceiveCommand ==
    /\ client.receive = "recv"
    /\ ~client.closed
    /\ client.to_client # <<>>
    /\ LET f == Head(client.to_client)
           cl == [client EXCEPT !.to_client = Tail(@)]
       IN client' =
            CASE f.id = "U" -> [cl EXCEPT !.current_user = f.text, !.printed = MsgConfirmed]
              [] f.id = "X" -> [cl EXCEPT !.closed = TRUE, !.printed = f.text]
              [] OTHER -> [cl EXCEPT !.printed = f.text]
    /\ UNCHANGED <<version, max_connections, call, srv, th, hist>>

\* receive_messages leaves its loop: recv raises OSError on the socket the client
\* closed, or returns nothing once the server closed and everything was read.
ReceiveBreak ==
    /\ client.receive = "recv"
    /\ \/ client.closed
       \/ closed[ClientSocket] /\ client.to_client = <<>>
    /\ client' = [client EXCEPT !.receive = "done"]
    /\ UNCHANGED <<version, max_connections, call, srv, th, hist>>

\* Server.disconnect for the client's socket, the worker being the only thread.
DropClient ==
    /\ connections' = connections \ {ClientSocket}
    /\ current_users' = DictPop(current_users, get_user_by_socket(current_users, ClientSocket))
    /\ closed' = [closed EXCEPT ![ClientSocket] = TRUE]
    /\ th' = [th EXCEPT ![ClientSocket].pc = "done"]

\* The notices of Server.broadcast that reach the client: one for every item of
\* the session table, all of them holding the client's socket.
RECURSIVE Notices(_, _)
Notices(d, text) ==
    IF d = <<>> THEN <<>> ELSE <<PrintCommand(text)>> \o Notices(Tail(d), text)

\* handle_client reads the client's next command and executes it:
\* ConnectCommand.execute, LoginCommand.execute, WhoCommand.execute.
Serve ==
    /\ th[ClientSocket].pc = "recv"
    /\ ~closed[ClientSocket]
    /\ client.to_server # <<>>
    /\ LET cmd == Head(client.to_server)
           cl == [client EXCEPT !.to_server = Tail(@)]
       IN CASE cmd.id = "C" /\ cmd.version # VersionText(version) ->
                 /\ client' = [cl EXCEPT !.to_client = Append(@, DisconnectCommand(MsgVersion))]
                 /\ DropClient
                 /\ UNCHANGED authed
            [] cmd.id = "C" /\ cmd.version = VersionText(version) ->
                 /\ client' = cl
                 /\ UNCHANGED <<connections, current_users, closed, th, authed>>
            [] cmd.id = "A" /\ user_and_password_exists(users_txt, cmd.user_id, cmd.password) ->
                 /\ client' = [cl EXCEPT !.to_client =
                                  @ \o Notices(current_users, MsgJoins(cmd.user_id))
                                    \o <<UserIdCommand(cmd.user_id)>>]
                 /\ current_users' = DictSet(current_users, cmd.user_id, ClientSocket)
                 /\ authed' = [authed EXCEPT ![ClientSocket] = cmd.user_id]
                 /\ UNCHANGED <<connections, closed, th>>
            [] cmd.id = "A" /\ ~user_and_password_exists(users_txt, cmd.user_id, cmd.password) ->
                 /\ client' = [cl EXCEPT !.to_client = Append(@, PrintCommand(MsgDenied))]
                 /\ UNCHANGED <<connections, current_users, closed, th, authed>>
            [] cmd.id = "W" ->
                 /\ LET connected_users == get_all_connected_users(current_users) IN
                    client' = [cl EXCEPT !.to_client =
                                  Append(@, [id |-> "P", text |-> JoinComma(connected_users),
                                             users |-> connected_users])]
                 /\ UNCHANGED <<connections, current_users, closed, th, authed>>
    /\ UNCHANGED <<version, max_connections, call, users_txt, locks, held, sent, snap, ncmds>>

\* handle_client reads nothing, the client having closed its socket: break, and
\* Server.disconnect.
ServeEOF ==
    /\ th[ClientSocket].pc = "recv"
    /\ ~closed[ClientSocket]
    /\ client.closed
    /\ client.to_server = <<>>
    /\ DropClient
    /\ UNCHANGED <<cfgv, users_txt, locks, held, hist>>

\* Server.disconnect_all, when the server is shut down: the sockets are closed,
\* the connection list and the session table are left as they are.
disconnect_all ==
    /\ connections # {}
    /\ \E c \in connections : ~closed[c]
    /\ closed' = [c \in Conns |-> closed[c] \/ c \in connections]
    /\ UNCHANGED <<cfgv, connections, current_users, users_txt, locks, held, th, hist>>

NextClient ==
    \/ Accept(ClientSocket)
    \/ InputTop
    \/ \E l \in ClientLogins : TypeLogin(l[1], l[2])
    \/ TypeWho
    \/ TypeLogout
    \/ ReceiveCommand
    \/ ReceiveBreak
    \/ Serve
    \/ ServeEOF
    \/ disconnect_all

SpecClient == InitClient /\ [][NextClient]_vars

\* C19: Client.current_user changes only when the receive thread executes a
\* UserId acknowledgement, and then to the acknowledged identifier; and it is
\* empty whenever the client has logged out or its socket is closed.
C19_CurrentUserTracksTheSession ==
    [][/\ client'.current_user # client.current_user =>
             /\ client.to_client # <<>>
             /\ Head(client.to_client).id = "U"
             /\ client'.to_client = Tail(client.to_client)
       /\ (/\ client.to_client # <<>>
           /\ Head(client.to_client).id = "U"
           /\ client'.to_client = Tail(client.to_client)) =>
             client'.current_user = Head(client.to_client).text
       /\ (client'.closed \/ client'.input = "done") =>
             client'.current_user = None]_vars

\* C20: whenever the input thread writes a Login to the socket, the server holds
\* no user for the client's connection.
C20_NoLoginOnceAuthenticated ==
    [][(/\ Len(client'.to_server) > Len(client.to_server)
        /\ client'.to_server[Len(client'.to_server)].id = "A") =>
           get_user_by_socket(current_users, ClientSocket) = None]_vars

\* The number of times the frame f to connection c is in the sequence s.
Deliveries(s, c, f) == Cardinality({k \in 1..Len(s) : s[k] = <<c, f>>})

\* C21: a teardown sends departure notices only for a connection that had logged
\* in; and when the teardown of a connection registered as u has ended, every
\* user that was in the session table after u's removal, still is there with the
\* same open connection, has received the notice "u left" exactly once (a
\* connection registered under several users once for each of them).
C21_DepartureNotice ==
    \A w \in Conns :
        /\ th[w].cmd.id = "teardown" => authed[w] # None
        /\ Completed(w, "teardown") =>
              LET u == th[w].cmd.user_id
                  remaining == DictPop(snap[w], u)
              IN \A i \in 1..Len(remaining) :
                    (/\ ~closed[remaining[i].socket]
                     /\ DictGet(current_users, remaining[i].user_id) = remaining[i].socket) =>
                        Deliveries(sent[w], remaining[i].socket, PrintCommand(MsgLeft(u)))
                          = Cardinality({j \in 1..Len(remaining) :
                                            remaining[j].socket = remaining[i].socket})

\* A worker with these locals is inside a loop over the session table: its
\* iterator is live (Server.broadcast, SendAllCommand.execute).
Iterating(t) ==
    /\ t.phase \in {"join", "sendall", "leave"}
    /\ t.pc \in {"iter", "store", "acquire", "writing"}

\* C22: while a worker is inside a loop over the session table no step changes
\* the table, and no such loop ends with the iterator's RuntimeError.
C22_RoutingExcludesMutation ==
    [][\A w \in Conns :
          /\ Iterating(th[w]) => current_users' = current_users
          /\ th'[w].err # "RuntimeError"]_vars

\* C23: when a command or a teardown that sends to other connections has ended
\* with the OSError of a write to a recipient that closed after the lookup, the
\* next step of its worker leaves the worker's own connection open and in the
\* connection list (a teardown apart, whose connection is closed already), and
\* every other connection that was in the session table when a fan-out began, is
\* still there and is open, has received the fan-out's frame.
C23_ClosedRecipientIsHarmless ==
    [][\A w \in Conns :
          (/\ th[w].pc = "complete"
           /\ th[w].cmd.id \in {"D", "S", "A", "teardown"}
           /\ th[w].err = "OSError"
           /\ th'[w] # th[w]) =>
              /\ th[w].cmd.id # "teardown" =>
                    /\ ~closed'[w]
                    /\ w \in connections'
                    /\ th'[w].pc = "recv"
              /\ th[w].cmd.id # "D" =>
                    \A c \in (SocketsOf(snap[w]) \cap SocketsOf(current_users)) \ {w} :
                        ~closed[c] => FramesTo(sent[w], c) >= 1]_vars

\* ------------------------------------------------------- the write locks
\* The server with the commands that send to other connections (Login, SendAll,
\* SendDirect) and the teardown, every worker thread being scheduled again and
\* again and every sendall returning or raising.
NextLocks ==
    \/ \E c \in Conns : Accept(c)
    \/ \E w \in Conns : RecvLogin(w, "alice", "secret1")
    \/ \E w \in Conns : Login(w)
    \/ \E w \in Conns, m \in Messages : RecvSendAll(w, m)
    \/ \E w \in Conns, m \in Messages : RecvSendDirect(w, "alice", m)
    \/ \E w \in Conns : RecvEOF(w)
    \/ \E w \in Conns : LockStore(w)
    \/ \E w \in Conns : LockAcquire(w)
    \/ \E w \in Conns : WriteDone(w)
    \/ \E w \in Conns : WriteFail(w)
    \/ \E w \in Conns : IterNext(w)
    \/ \E w \in Conns : BreakOnOSError(w)
    \/ \E w \in Conns : Return(w)
    \/ \E w \in Conns : Uncaught(w)
    \/ \E w \in Conns : EndDisconnect(w)

\* The steps of worker w inside Command.request.
RequestStep(w) == LockStore(w) \/ LockAcquire(w) \/ WriteDone(w) \/ WriteFail(w)

SpecLocks ==
    Init /\ [][NextLocks]_vars /\ \A w \in Conns : WF_vars(RequestStep(w))

\* The semaphores the workers inside sendall acquired.
HeldBy(W) == {th[w].sem : w \in W}

TornDown(w) ==
    /\ th[w].pc \in {"recv", "complete"}
    /\ ~closed[w]
    /\ closed'[w]

\* C25: a step that changes the user-to-connection map is the Server.login of a
\* worker whose Login authenticated, adding that user with that connection, or
\* the teardown of a connection, removing the user found for it; a step that
\* changes the open-connection set is the teardown of the connection it removes
\* (or the admission of the one it adds); a step that changes the credential
\* store is the append of a worker executing NewUser and adds that command's
\* record at the end, every record before it staying as it was.  So no step of a
\* NewUser, Who, SendAll or SendDirect changes the map or the set, and no step of
\* a Login, Who, SendAll, SendDirect or Connect changes the store.
C25_FrameEffects ==
    [][/\ current_users' # current_users =>
             \E w \in Conns :
                \/ /\ th[w].pc = "login"
                   /\ th[w].cmd.id = "A"
                   /\ user_and_password_exists(users_txt, th[w].cmd.user_id, th[w].cmd.password)
                   /\ current_users' = DictSet(current_users, th[w].cmd.user_id, w)
                \/ /\ TornDown(w)
                   /\ current_users' =
                         DictPop(current_users, get_user_by_socket(current_users, w))
       /\ connections' # connections =>
             \E w \in Conns :
                \/ TornDown(w) /\ connections' = connections \ {w}
                \/ th[w].pc = "idle" /\ connections' = connections \cup {w}
       /\ users_txt' # users_txt =>
             \E w \in Conns :
                /\ th[w].pc = "nu_append"
                /\ th[w].cmd.id = "N"
                /\ users_txt' = Append(users_txt, [user_id |-> th[w].cmd.user_id,
                                                   password |-> th[w].cmd.password])]_vars

\* C25's case: a NewUser has added a record, a Login has registered a user and a
\* logged-in connection has been torn down.
C25_Witness ==
    /\ Len(users_txt) > Len(InitialUsersTxt)
    /\ current_users # <<>>
    /\ \E w \in Conns : closed[w] /\ authed[w] # None

====
